---- MODULE Spec2Model ----
(***************************************************************************)
(* Floor-aware 3D elevation pipeline (scripts 1-4 of the repository).      *)
(*                                                                         *)
(* The module holds one specification per script entry point:              *)
(*   SpecInterp   add_z_geometry / _interp_line          (script 4)        *)
(*   SpecOrd      ord_to_floor / floor_to_z              (script 4)        *)
(*   SpecRun      the module-level run of script 4                         *)
(*   SpecLabel    infer_floor_label                      (scripts 1, 2)    *)
(*   SpecUniform  add_z_to_geom (script 1), process      (script 3)        *)
(*   SpecMain     main / process_shp                     (script 1)        *)
(*   SpecCat      categorize_geom                        (script 2)        *)
(* All specifications share the variables below; a specification leaves    *)
(* the variables of the other entry points at their idle values.           *)
(***************************************************************************)
EXTENDS Integers, Sequences, FiniteSets, TLC

VARIABLES
    \* ---- script 4, add_z_geometry(geom, z0, z1) ----
    geom,       \* the geometry argument
    z0,         \* start elevation (a float of the format below)
    z1,         \* end elevation
    sumImpl,    \* how the interpreter's builtin sum() adds floats
    ret4,       \* the value add_z_geometry returned
    pc4,        \* "call" before the call, "ret" after it
    warnings4,  \* number of warnings the call emitted
    \* ---- script 4, ord_to_floor(o) followed by floor_to_z ----
    ordinal,    \* the ordinal argument
    floorLabel, \* what ord_to_floor returned
    zAbs,       \* what floor_to_z returned for it
    pcOrd,      \* "call", "labelled", "ret"
    \* ---- script 4, the module-level run ----
    nodes,      \* rows of the node table: [node_id, ordinal, floor_label, z]
    links,      \* rows of the link table: [idx, start_id, end_id, geometry]
    L,          \* the merged link table: link columns plus z_start, z_end
    missing,    \* len(missing) once computed
    stdout4,    \* the [WARN] lines printed, as the counts they report
    outFile,    \* the rows written to OUT_GEOJSON
    pcRun,      \* the statement the run is at
    \* ---- scripts 1 and 2, infer_floor_label(filename) ----
    filename,   \* the file name, a sequence of characters
    script,     \* which script's PATTERNS were used (1 or 2), 0 before the call
    label,      \* the label returned
    pcLabel,    \* "call", "ret"
    \* ---- script 1, add_z_to_geom(geom, z) ----
    geom1,      \* the geometry argument
    z,          \* the elevation argument
    ret1,       \* the value returned
    warnings1,  \* number of warnings the call emitted
    pc1,        \* "call", "ret"
    \* ---- script 3, process(obj) ----
    heap,       \* the dicts of the parsed GeoJSON, by address
    data,       \* the address process() is called with (0 is None)
    ret3,       \* the address process() returned
    pc3,        \* "call", "ret"
    \* ---- script 1, main() ----
    shps,       \* list(INPUT_DIR.rglob("*.shp")), in directory order
    todo,       \* sorted(shps), the part not yet iterated
    attempted,  \* the files process_shp was called with, in call order
    stdout1,    \* the tagged lines main and process_shp printed: <<tag, file>>
    written,    \* the files whose .3d.geojson was written
    exitCode,   \* the exit status of the run, -1 while it runs
    pcMain,     \* "start", "loop", "done", "exit"
    \* ---- script 2, categorize_geom(ft) ----
    feature,    \* the feature argument ft
    category,   \* what categorize_geom returned
    pcCat       \* "call", "ret"

varsInterp == <<geom, z0, z1, sumImpl, ret4, pc4, warnings4>>
varsOrd == <<ordinal, floorLabel, zAbs, pcOrd>>
varsRun == <<nodes, links, L, missing, stdout4, outFile, pcRun>>

varsLabel == <<filename, script, label, pcLabel>>
varsUni == <<geom1, z, ret1, warnings1, pc1>>
varsJson == <<heap, data, ret3, pc3>>
varsMain == <<shps, todo, attempted, stdout1, written, exitCode, pcMain>>
varsCat == <<feature, category, pcCat>>

vars == <<varsInterp, varsOrd, varsRun, varsLabel, varsUni, varsJson, varsMain, varsCat>>

\* what the actions of one entry point leave alone
othersInterp == <<varsOrd, varsRun, varsLabel, varsUni, varsJson, varsMain, varsCat>>
othersOrd == <<varsInterp, varsRun, varsLabel, varsUni, varsJson, varsMain, varsCat>>
othersRun == <<varsInterp, varsOrd, varsLabel, varsUni, varsJson, varsMain, varsCat>>
othersLabel == <<varsInterp, varsOrd, varsRun, varsUni, varsJson, varsMain, varsCat>>
othersUni == <<varsInterp, varsOrd, varsRun, varsLabel, varsJson, varsMain, varsCat>>
othersJson == <<varsInterp, varsOrd, varsRun, varsLabel, varsUni, varsMain, varsCat>>
othersMain == <<varsInterp, varsOrd, varsRun, varsLabel, varsUni, varsJson, varsCat>>
othersCat == <<varsInterp, varsOrd, varsRun, varsLabel, varsUni, varsJson, varsMain>>

(***************************************************************************)
(* Floating point.  Python floats are binary floating point numbers with a *)
(* fixed number of significant bits, rounded to nearest, ties to even,     *)
(* after every operation.  The model keeps that arithmetic at a reduced    *)
(* width: a float is an integer count of quanta 2^-FracBits whose          *)
(* magnitude has at most Prec significant bits.                            *)
(***************************************************************************)
Prec == 3
FracBits == 4

RECURSIVE Pow2(_)
Pow2(n) == IF n = 0 THEN 1 ELSE 2 * Pow2(n - 1)

One == Pow2(FracBits)

Abs(x) == IF x < 0 THEN -x ELSE x

Sign(x) == IF x < 0 THEN -1 ELSE 1

\* least e >= 0 with n / q < 2^(Prec + e): the exponent of the quantum n/q rounds to
RECURSIVE ExpOf(_, _, _)
ExpOf(n, q, e) == IF n < q * Pow2(Prec + e) THEN e ELSE ExpOf(n, q, e + 1)

\* the float nearest to the rational p / q (q > 0), ties to the even significand
RoundQ(p, q) ==
    LET n   == Abs(p)
        e   == ExpOf(n, q, 0)
        den == q * Pow2(e)
        m0  == n \div den
        rem == n % den
        m   == IF 2 * rem > den \/ (2 * rem = den /\ m0 % 2 = 1) THEN m0 + 1 ELSE m0
    IN  Sign(p) * m * Pow2(e)

IsFloat(v) == RoundQ(v, 1) = v

FAdd(x, y) == RoundQ(x + y, 1)
FSub(x, y) == RoundQ(x - y, 1)
FMul(x, y) == RoundQ(x * y, One)
FDiv(x, y) == RoundQ(x * One, y)

\* floor of the square root of n
RECURSIVE ISqrtFrom(_, _)
ISqrtFrom(n, r) == IF (r + 1) * (r + 1) > n THEN r ELSE ISqrtFrom(n, r + 1)
ISqrt(n) == ISqrtFrom(n, 0)

\* the float nearest to sqrt(n) quanta, n a count of squared quanta
RoundSqrt(n) ==
    LET s  == ISqrt(n)
        e  == ExpOf(s, 1, 0)
        u  == Pow2(e)
        m0 == s \div u
        \* sqrt(n) against the midpoint (m0 + 1/2) * u, both squared and times 4
        lhs == 4 * n
        mid == (2 * m0 + 1) * u
        m  == IF lhs > mid * mid \/ (lhs = mid * mid /\ m0 % 2 = 1) THEN m0 + 1 ELSE m0
    IN  m * u

\* math.hypot(dx, dy) for coordinate differences given in whole coordinate units
Hypot(dx, dy) == RoundSqrt((dx * dx + dy * dy) * One * One)

(***************************************************************************)
(* Geometries.  A shapely geometry is a value [type, parts, geoms]:        *)
(*   parts  the coordinate sequences the shape owns (a Point has one       *)
(*          sequence of one coordinate, a LineString one sequence, a       *)
(*          Polygon its exterior ring followed by its interior rings);     *)
(*   geoms  the children of a Multi* shape or a GeometryCollection.        *)
(* A coordinate is <<x, y>> or <<x, y, z>>; x and y are whole coordinate   *)
(* units, z is a float.                                                    *)
(***************************************************************************)
Geometry(t, p, g) == [type |-> t, parts |-> p, geoms |-> g]

NoneGeom == Geometry("None", <<>>, <<>>)
Point(c) == Geometry("Point", << <<c>> >>, <<>>)
LineString(cs) == Geometry("LineString", <<cs>>, <<>>)
LinearRing(cs) == Geometry("LinearRing", <<cs>>, <<>>)
Polygon(ext, ints) == Geometry("Polygon", <<ext>> \o ints, <<>>)
MultiPoint(gs) == Geometry("MultiPoint", <<>>, gs)
MultiLineString(gs) == Geometry("MultiLineString", <<>>, gs)
MultiPolygon(gs) == Geometry("MultiPolygon", <<>>, gs)
GeometryCollection(gs) == Geometry("GeometryCollection", <<>>, gs)

\* what a call leaves behind when an exception escapes it
Raised == Geometry("Raised", <<>>, <<>>)

\* every leaf coordinate of a geometry, in order
RECURSIVE FlattenParts(_)
FlattenParts(ps) == IF ps = <<>> THEN <<>> ELSE Head(ps) \o FlattenParts(Tail(ps))

RECURSIVE Leaves(_)
RECURSIVE LeavesOfAll(_)
Leaves(g) == FlattenParts(g.parts) \o LeavesOfAll(g.geoms)
LeavesOfAll(gs) == IF gs = <<>> THEN <<>> ELSE Leaves(Head(gs)) \o LeavesOfAll(Tail(gs))

(***************************************************************************)
(* Optional values: None / NaN against a present value.                    *)
(***************************************************************************)
NoneZ == [some |-> FALSE, val |-> 0]
SomeZ(v) == [some |-> TRUE, val |-> v]
NoneLabel == "<None>"

\* ordinal values as they reach ord_to_floor: None, a string that is no number,
\* NaN, an infinity, or the number num / OrdDen
OrdDen == 4
OrdNone == [kind |-> "none", num |-> 0]
OrdStr == [kind |-> "str", num |-> 0]
OrdNaN == [kind |-> "nan", num |-> 0]
OrdInf == [kind |-> "inf", num |-> 0]
OrdNum(n) == [kind |-> "num", num |-> n]

(***************************************************************************)
(* Idle values: what a specification leaves in the variables of the        *)
(* entry points it does not run.                                           *)
(***************************************************************************)
InterpIdle ==
    /\ geom = NoneGeom /\ z0 = 0 /\ z1 = 0 /\ sumImpl = "naive"
    /\ ret4 = NoneGeom /\ pc4 = "idle" /\ warnings4 = 0

OrdIdle ==
    /\ ordinal = OrdNone /\ floorLabel = NoneLabel /\ zAbs = NoneZ /\ pcOrd = "idle"

RunIdle ==
    /\ nodes = <<>> /\ links = <<>> /\ L = <<>> /\ missing = 0
    /\ stdout4 = <<>> /\ outFile = <<>> /\ pcRun = "idle"

LabelIdle ==
    /\ filename = <<>> /\ script = 0 /\ label = NoneLabel /\ pcLabel = "idle"

UniIdle ==
    /\ geom1 = NoneGeom /\ z = 0 /\ ret1 = NoneGeom /\ warnings1 = 0 /\ pc1 = "idle"

JsonIdle ==
    /\ heap = <<>> /\ data = 0 /\ ret3 = 0 /\ pc3 = "idle"

MainIdle ==
    /\ shps = <<>> /\ todo = <<>> /\ attempted = <<>> /\ stdout1 = <<>>
    /\ written = {} /\ exitCode = -1 /\ pcMain = "idle"

CatIdle ==
    /\ feature = NoneGeom /\ category = NoneLabel /\ pcCat = "idle"

\* the idle values of every entry point but the named one
IdleButInterp == OrdIdle /\ RunIdle /\ LabelIdle /\ UniIdle /\ JsonIdle /\ MainIdle /\ CatIdle
IdleButOrd == InterpIdle /\ RunIdle /\ LabelIdle /\ UniIdle /\ JsonIdle /\ MainIdle /\ CatIdle
IdleButLabel == InterpIdle /\ OrdIdle /\ RunIdle /\ UniIdle /\ JsonIdle /\ MainIdle /\ CatIdle
IdleButUni == InterpIdle /\ OrdIdle /\ RunIdle /\ LabelIdle /\ JsonIdle /\ MainIdle /\ CatIdle
IdleButJson == InterpIdle /\ OrdIdle /\ RunIdle /\ LabelIdle /\ UniIdle /\ MainIdle /\ CatIdle
IdleButMain == InterpIdle /\ OrdIdle /\ RunIdle /\ LabelIdle /\ UniIdle /\ JsonIdle /\ CatIdle
IdleButCat ==
    InterpIdle /\ OrdIdle /\ RunIdle /\ LabelIdle /\ UniIdle /\ JsonIdle /\ MainIdle

(***************************************************************************)
(* Script 4: _interp_line and add_z_geometry.                              *)
(***************************************************************************)
\* the `1e-9` that stands in for a zero total length: the smallest positive float
TinyTotal == 1

\* seg[k]: planar length of the segment from vertex k to vertex k + 1
SegLengths(xy) ==
    [k \in 1 .. Len(xy) - 1 |->
        Hypot(xy[k + 1][1] - xy[k][1], xy[k + 1][2] - xy[k][2])]

\* mutant of Acc: `acc = seg[i-1]`, the running length not carried over
AccNoCarry(seg, k) == IF k = 0 THEN 0 ELSE seg[k]

\* acc after the loop body has run for vertices 2 .. k + 1 (acc += seg[i-1])
RECURSIVE Acc(_, _)
Acc(seg, k) == IF k = 0 THEN 0 ELSE FAdd(Acc(seg, k - 1), seg[k])

\* builtin sum(), floats added left to right (CPython up to 3.11)
SumNaive(seg) == Acc(seg, Len(seg))

\* builtin sum(), Neumaier compensated summation of floats (CPython from 3.12):
\* <<f_result, c>> after the first k items
RECURSIVE NeumaierState(_, _)
NeumaierState(seg, k) ==
    IF k = 0 THEN <<0, 0>>
    ELSE LET prev == NeumaierState(seg, k - 1)
             f == prev[1]
             c == prev[2]
             x == seg[k]
             t == FAdd(f, x)
         IN  IF Abs(f) >= Abs(x)
             THEN <<t, FAdd(c, FAdd(FSub(f, t), x))>>
             ELSE <<t, FAdd(c, FAdd(FSub(x, t), f))>>

SumNeumaier(seg) ==
    LET st == NeumaierState(seg, Len(seg))
    IN  IF st[2] # 0 THEN FAdd(st[1], st[2]) ELSE st[1]

BuiltinSum(seg, impl) == IF impl = "naive" THEN SumNaive(seg) ELSE SumNeumaier(seg)

\* total = sum(seg) or 1e-9
TotalLength(seg, impl) ==
    LET s == BuiltinSum(seg, impl) IN IF s = 0 THEN TinyTotal ELSE s

\* z = z0 + (z1 - z0) * t, t = acc / total
InterpZ(a, b, acc, total) == FAdd(a, FMul(FSub(b, a), FDiv(acc, total)))

\* _interp_line raises: xy[0] of an empty list, or `x, y = xy[0]` of a 3-tuple
InterpLineRaises(xy) ==
    \/ Len(xy) = 0
    \/ Len(xy) = 1 /\ Len(xy[1]) # 2

\* mutant of InterpLine: t is taken before acc is advanced (acc of vertex i - 1)
InterpLineOff(xy, a, b, impl) ==
    IF Len(xy) = 1
    THEN << <<xy[1][1], xy[1][2], a>> >>
    ELSE LET seg == SegLengths(xy)
             total == TotalLength(seg, impl)
         IN  [i \in 1 .. Len(xy) |->
                IF i = 1 THEN <<xy[1][1], xy[1][2], a>>
                ELSE <<xy[i][1], xy[i][2], InterpZ(a, b, Acc(seg, i - 2), total)>>]

\* the coordinates of the LineString _interp_line returns
InterpLine(xy, a, b, impl) ==
    IF Len(xy) = 1
    THEN << <<xy[1][1], xy[1][2], a>> >>
    ELSE LET seg == SegLengths(xy)
             total == TotalLength(seg, impl)
         IN  [i \in 1 .. Len(xy) |->
                IF i = 1 THEN <<xy[1][1], xy[1][2], a>>
                ELSE <<xy[i][1], xy[i][2], InterpZ(a, b, Acc(seg, i - 1), total)>>]

\* isinstance(geom, LineString): shapely's LinearRing is a subclass of LineString
IsLineString(g) == g.type \in {"LineString", "LinearRing"}

\* add_z_geometry: <<returned geometry, warnings emitted>>
AddZGeometry(g, a, b, impl) ==
    IF IsLineString(g)
    THEN IF InterpLineRaises(g.parts[1]) THEN <<Raised, 0>>
         ELSE <<LineString(InterpLine(g.parts[1], a, b, impl)), 0>>
    ELSE IF g.type = "MultiLineString"
    THEN IF \E k \in 1 .. Len(g.geoms) : InterpLineRaises(g.geoms[k].parts[1])
         THEN <<Raised, 0>>
         ELSE <<MultiLineString([k \in 1 .. Len(g.geoms) |->
                    LineString(InterpLine(g.geoms[k].parts[1], a, b, impl))]), 0>>
    ELSE <<g, 0>>

(***************************************************************************)
(* SpecInterp: one call add_z_geometry(geom, z0, z1).                      *)
(***************************************************************************)
MaxVerts == 3
ZMax == 6

\* sample vertices: segments of length sqrt(2), 2 and sqrt(10), and none
Pts == {<<0, 0>>, <<1, 1>>, <<3, 1>>}

Paths == UNION {[1 .. n -> Pts] : n \in 1 .. MaxVerts}

\* whole-number elevations that are floats
ElevVals == {v * One : v \in {w \in -ZMax .. ZMax : IsFloat(w * One)}}

Square == <<<<0, 0>>, <<3, 0>>, <<3, 1>>, <<0, 0>>>>

OtherGeoms ==
    { NoneGeom,
      Point(<<1, 1>>),
      Point(<<1, 1, 2 * One>>),
      MultiPoint(<<Point(<<0, 0>>), Point(<<3, 1>>)>>),
      Polygon(Square, <<>>),
      MultiPolygon(<<Polygon(Square, <<>>)>>),
      LinearRing(Square),
      GeometryCollection(<<Point(<<1, 1>>), LineString(<<<<0, 0>>, <<1, 1>>>>)>>) }

InterpGeoms ==
    {LineString(p) : p \in Paths}
    \cup {MultiLineString(<<LineString(p), LineString(q)>>) :
            p \in [1 .. 2 -> Pts], q \in {<<<<0, 0>>, <<3, 1>>>>, <<<<1, 1>>, <<1, 1>>>>}}
    \cup OtherGeoms

InterpStart ==
    /\ geom \in InterpGeoms
    /\ z0 \in ElevVals
    /\ z1 \in ElevVals
    /\ sumImpl \in {"naive", "neumaier"}
    /\ ret4 = NoneGeom
    /\ pc4 = "call"
    /\ warnings4 = 0

CallAddZGeometry ==
    /\ pc4 = "call"
    /\ LET r == AddZGeometry(geom, z0, z1, sumImpl)
       IN  /\ ret4' = r[1]
           /\ warnings4' = warnings4 + r[2]
    /\ pc4' = "ret"
    /\ UNCHANGED <<geom, z0, z1, sumImpl>>
    /\ UNCHANGED othersInterp

InitInterp == InterpStart /\ IdleButInterp
NextInterp == CallAddZGeometry
SpecInterp == InitInterp /\ [][NextInterp]_vars

(***************************************************************************)
(* Claims about _interp_line and add_z_geometry, checked under SpecInterp. *)
(***************************************************************************)
\* the call was add_z_geometry(path, z0, z1) with a path of >= 1 vertex, and it returned
PathCallReturned ==
    /\ pc4 = "ret"
    /\ IsLineString(geom)
    /\ Len(geom.parts[1]) >= 1
    /\ ret4 # Raised

InPath == geom.parts[1]
OutPath == ret4.parts[1]
FirstZ == OutPath[1][3]
LastZ == OutPath[Len(OutPath)][3]

\* all vertices of the input path coincide (one vertex, or planar length 0)
Degenerate == \A i \in 1 .. Len(InPath) : InPath[i] = InPath[1]

NonDecreasing == \A i \in 1 .. Len(OutPath) - 1 : OutPath[i][3] <= OutPath[i + 1][3]
NonIncreasing == \A i \in 1 .. Len(OutPath) - 1 : OutPath[i][3] >= OutPath[i + 1][3]
Between(lo, hi) == \A i \in 1 .. Len(OutPath) : lo <= OutPath[i][3] /\ OutPath[i][3] <= hi

NonPathCallReturned ==
    /\ pc4 = "ret"
    /\ ~IsLineString(geom)
    /\ geom.type \in {"Point", "MultiPoint", "Polygon", "MultiPolygon", "GeometryCollection"}

\* C6 as stated: an interpolated projection that reaches a non-path shape
\* gives every leaf coordinate of that shape Z = zStart.
C6_NonPathGetsZStart ==
    NonPathCallReturned =>
        \A i \in 1 .. Len(Leaves(ret4)) :
            Len(Leaves(ret4)[i]) = 3 /\ Leaves(ret4)[i][3] = z0

(***************************************************************************)
(* Script 4: ord_to_floor, floor_to_z and the floor table.                 *)
(***************************************************************************)
\* a decimal literal, given in tenths, as the float the interpreter reads it as
FloatLiteral(tenths) == RoundQ(tenths * One, 10)

\* BASE_Z = 3.2, in tenths
BASE_Z4 == 32

\* FLOOR_OFFSETS of script 4, in tenths
FLOOR_OFFSETS4 ==
    [lab \in {"3B", "2B", "1B", "0F", "1F", "2F", "2out", "3F", "3out", "4F", "4out"} |->
        CASE lab = "3B" -> -350
          [] lab = "2B" -> -250
          [] lab = "1B" -> -150
          [] lab = "0F" -> 0
          [] lab = "1F" -> 150
          [] lab \in {"2F", "2out"} -> 250
          [] lab \in {"3F", "3out"} -> 350
          [] lab \in {"4F", "4out"} -> 450]

\* mutant of RoundHalfEven: int(float(o)) without round(), truncating toward zero
RoundTruncate(n, d) == IF n >= 0 THEN n \div d ELSE -((-n) \div d)

\* round(n / d) of a float: to the nearest integer, a tie to the even one
RoundHalfEven(n, d) ==
    LET q == n \div d
        r == n % d
    IN  IF 2 * r > d \/ (2 * r = d /\ q % 2 = 1) THEN q + 1 ELSE q

\* ord_to_floor
OrdToFloor(ord) ==
    IF ord.kind = "none" THEN NoneLabel
    ELSE IF ord.kind \in {"str", "nan", "inf"} THEN NoneLabel
    ELSE LET v == RoundHalfEven(ord.num, OrdDen)
         IN  IF v < 0 THEN ToString(Abs(v)) \o "B"
             ELSE IF v = 0 THEN "0F"
             ELSE ToString(v) \o "F"

\* floor_to_z
FloorToZ(lab) ==
    IF lab = NoneLabel THEN NoneZ
    ELSE IF lab \notin DOMAIN FLOOR_OFFSETS4 THEN NoneZ
    ELSE SomeZ(FAdd(FloatLiteral(BASE_Z4), FloatLiteral(FLOOR_OFFSETS4[lab])))

(***************************************************************************)
(* SpecOrd: ord_to_floor(ordinal), then floor_to_z of its result, as the   *)
(* run applies them to a node row.                                         *)
(***************************************************************************)
OrdMax == 6

OrdInputs ==
    {OrdNone, OrdStr, OrdNaN, OrdInf} \cup {OrdNum(n) : n \in -OrdMax * OrdDen .. OrdMax * OrdDen}

OrdStart ==
    /\ ordinal \in OrdInputs
    /\ floorLabel = NoneLabel
    /\ zAbs = NoneZ
    /\ pcOrd = "call"

CallOrdToFloor ==
    /\ pcOrd = "call"
    /\ floorLabel' = OrdToFloor(ordinal)
    /\ pcOrd' = "labelled"
    /\ UNCHANGED <<ordinal, zAbs>>
    /\ UNCHANGED othersOrd

CallFloorToZ ==
    /\ pcOrd = "labelled"
    /\ zAbs' = FloorToZ(floorLabel)
    /\ pcOrd' = "ret"
    /\ UNCHANGED <<ordinal, floorLabel>>
    /\ UNCHANGED othersOrd

InitOrd == OrdStart /\ IdleButOrd
NextOrd == CallOrdToFloor \/ CallFloorToZ
SpecOrd == InitOrd /\ [][NextOrd]_vars

\* the label the claim gives the integer v
ClaimedLabel(v) ==
    IF v < 0 THEN ToString(-v) \o "B"
    ELSE IF v = 0 THEN "0F"
    ELSE ToString(v) \o "F"

\* C4: ord_to_floor returns None for an absent or non-numeric ordinal; otherwise
\* it returns the claimed label of an integer v nearest to the ordinal (no integer
\* is nearer; for a halfway ordinal v is one of its two neighbours).
C4_OrdToFloor ==
    pcOrd # "call" =>
        /\ ordinal.kind \in {"none", "str", "nan", "inf"} => floorLabel = NoneLabel
        /\ ordinal.kind = "num" =>
            \E v \in -OrdMax - 1 .. OrdMax + 1 :
                /\ 2 * Abs(OrdDen * v - ordinal.num) <= OrdDen
                /\ floorLabel = ClaimedLabel(v)

\* the halfway ordinal 2.5 was labelled (as "2F": the tie went to the even integer)
C4_Witness ==
    /\ pcOrd = "ret"
    /\ ordinal.kind = "num"
    /\ 2 * ordinal.num = 5 * OrdDen
    /\ floorLabel = "2F"
    /\ zAbs.some

(***************************************************************************)
(* SpecRun: the module-level statements of script 4, one action each.      *)
(***************************************************************************)
MaxNodes == 2
MaxLinks == 2

\* node rows as read from NODE_SHP: ids need not be unique in the file
NodeRows ==
    { [node_id |-> 1, ordinal |-> OrdNum(-1 * OrdDen)],
      [node_id |-> 1, ordinal |-> OrdNum(99 * OrdDen)],
      [node_id |-> 2, ordinal |-> OrdNum(0)],
      [node_id |-> 2, ordinal |-> OrdNaN] }

\* the geometry of the k-th link row
LinkGeometry(k) ==
    IF k % 2 = 1
    THEN LineString(<<<<0, 0>>, <<1, 1>>, <<3, 1>>>>)
    ELSE MultiLineString(<<LineString(<<<<0, 0>>, <<3, 1>>>>), LineString(<<<<1, 1>>, <<1, 1>>>>)>>)

\* link rows as read from LINK_SHP; node 3 is in no node table
LinkTables ==
    UNION {[1 .. n -> {1, 3} \X {1, 2}] : n \in 0 .. MaxLinks}

NodeTables == UNION {[1 .. n -> NodeRows] : n \in 0 .. MaxNodes}

\* nodes["floor_label"] = ...apply(ord_to_floor); nodes["z"] = ...apply(floor_to_z)
WithLabelAndZ(rows) ==
    [k \in 1 .. Len(rows) |->
        [node_id |-> rows[k].node_id,
         ordinal |-> rows[k].ordinal,
         floor_label |-> OrdToFloor(rows[k].ordinal),
         z |-> FloorToZ(OrdToFloor(rows[k].ordinal))]]

\* the node rows whose id equals key, in table order
Matches(nodeRows, key) == SelectSeq(nodeRows, LAMBDA n : n.node_id = key)

\* DataFrame.merge(..., on=LINK_S_COL, how="left"): every left row once per
\* matching node row, or once with missing values if none matches
RECURSIVE MergeStart(_, _)
MergeStart(linkRows, nodeRows) ==
    IF linkRows = <<>> THEN <<>>
    ELSE LET l == Head(linkRows)
             m == Matches(nodeRows, l.start_id)
             joined ==
                IF m = <<>>
                THEN << [idx |-> l.idx, start_id |-> l.start_id, end_id |-> l.end_id,
                         geometry |-> l.geometry,
                         floor_s |-> NoneLabel, z_start |-> NoneZ] >>
                ELSE [j \in 1 .. Len(m) |->
                        [idx |-> l.idx, start_id |-> l.start_id, end_id |-> l.end_id,
                         geometry |-> l.geometry,
                         floor_s |-> m[j].floor_label, z_start |-> m[j].z]]
         IN  joined \o MergeStart(Tail(linkRows), nodeRows)

\* the second merge, on=LINK_E_COL
RECURSIVE MergeEnd(_, _)
MergeEnd(rows, nodeRows) ==
    IF rows = <<>> THEN <<>>
    ELSE LET l == Head(rows)
             m == Matches(nodeRows, l.end_id)
             joined ==
                IF m = <<>>
                THEN << [idx |-> l.idx, start_id |-> l.start_id, end_id |-> l.end_id,
                         geometry |-> l.geometry,
                         floor_s |-> l.floor_s, z_start |-> l.z_start,
                         floor_e |-> NoneLabel, z_end |-> NoneZ] >>
                ELSE [j \in 1 .. Len(m) |->
                        [idx |-> l.idx, start_id |-> l.start_id, end_id |-> l.end_id,
                         geometry |-> l.geometry,
                         floor_s |-> l.floor_s, z_start |-> l.z_start,
                         floor_e |-> m[j].floor_label, z_end |-> m[j].z]]
         IN  joined \o MergeEnd(Tail(rows), nodeRows)

\* L[L[["z_start", "z_end"]].isna().any(axis=1)]
MissingRows(rows) == SelectSeq(rows, LAMBDA r : ~r.z_start.some \/ ~r.z_end.some)

\* mutant of DropNa: dropna(subset=["z_start"]) only
DropNaStartOnly(rows) == SelectSeq(rows, LAMBDA r : r.z_start.some)

\* L.dropna(subset=["z_start", "z_end"])
DropNa(rows) == SelectSeq(rows, LAMBDA r : r.z_start.some /\ r.z_end.some)

\* L.apply(lambda r: add_z_geometry(r.geometry, float(r["z_start"]), float(r["z_end"])))
Projected(rows, impl) ==
    [k \in 1 .. Len(rows) |->
        [rows[k] EXCEPT !.geometry =
            AddZGeometry(rows[k].geometry, rows[k].z_start.val, rows[k].z_end.val, impl)[1]]]

RunStart ==
    /\ nodes \in NodeTables
    /\ \E t \in LinkTables :
        links = [k \in 1 .. Len(t) |->
                    [idx |-> k, start_id |-> t[k][1], end_id |-> t[k][2],
                     geometry |-> LinkGeometry(k)]]
    /\ L = <<>>
    /\ missing = 0
    /\ stdout4 = <<>>
    /\ outFile = <<>>
    /\ pcRun = "label"

\* lines 107-108
AssignNodeZ ==
    /\ pcRun = "label"
    /\ nodes' = WithLabelAndZ(nodes)
    /\ pcRun' = "merge"
    /\ UNCHANGED <<links, L, missing, stdout4, outFile>>
    /\ UNCHANGED othersRun

\* lines 111-119
MergeLinks ==
    /\ pcRun = "merge"
    /\ L' = MergeEnd(MergeStart(links, nodes), nodes)
    /\ pcRun' = "check"
    /\ UNCHANGED <<nodes, links, missing, stdout4, outFile>>
    /\ UNCHANGED othersRun

\* lines 122-124
CheckMissing ==
    /\ pcRun = "check"
    /\ missing' = Len(MissingRows(L))
    /\ stdout4' = IF Len(MissingRows(L)) # 0
                  THEN Append(stdout4, Len(MissingRows(L)))
                  ELSE stdout4
    /\ pcRun' = "dropna"
    /\ UNCHANGED <<nodes, links, L, outFile>>
    /\ UNCHANGED othersRun

\* line 125
DropMissing ==
    /\ pcRun = "dropna"
    /\ L' = DropNa(L)
    /\ pcRun' = "project"
    /\ UNCHANGED <<nodes, links, missing, stdout4, outFile>>
    /\ UNCHANGED othersRun

\* lines 129-133
ProjectLinks ==
    /\ pcRun = "project"
    /\ L' = Projected(L, sumImpl)
    /\ pcRun' = IF \E k \in 1 .. Len(L) : Projected(L, sumImpl)[k].geometry = Raised
                THEN "raised" ELSE "write"
    /\ UNCHANGED <<nodes, links, missing, stdout4, outFile>>
    /\ UNCHANGED othersRun

\* line 137
WriteOutput ==
    /\ pcRun = "write"
    /\ outFile' = L
    /\ pcRun' = "done"
    /\ UNCHANGED <<nodes, links, L, missing, stdout4>>
    /\ UNCHANGED othersRun

InitRun ==
    /\ RunStart
    /\ geom = NoneGeom /\ z0 = 0 /\ z1 = 0 /\ sumImpl \in {"naive", "neumaier"}
    /\ ret4 = NoneGeom /\ pc4 = "idle" /\ warnings4 = 0
    /\ OrdIdle /\ LabelIdle /\ UniIdle /\ JsonIdle /\ MainIdle /\ CatIdle
NextRun ==
    \/ AssignNodeZ
    \/ MergeLinks
    \/ CheckMissing
    \/ DropMissing
    \/ ProjectLinks
    \/ WriteOutput
SpecRun == InitRun /\ [][NextRun]_vars

\* node ids are unique in the node table
UniqueNodeIds ==
    \A i \in 1 .. Len(nodes) : \A j \in 1 .. Len(nodes) :
        nodes[i].node_id = nodes[j].node_id => i = j

\* the ordinal maps to a label present in FLOOR_OFFSETS
OrdinalHasZ(ord) == OrdToFloor(ord) \in DOMAIN FLOOR_OFFSETS4

\* some node row has this id and a defined Z
ResolvesTo(id) ==
    \E i \in 1 .. Len(nodes) : nodes[i].node_id = id /\ OrdinalHasZ(nodes[i].ordinal)

\* the Z of the node with this id (ids unique)
NodeZ(id) ==
    LET i == CHOOSE i \in 1 .. Len(nodes) : nodes[i].node_id = id
    IN  FloorToZ(OrdToFloor(nodes[i].ordinal)).val

EmittedAs(k) == {j \in 1 .. Len(outFile) : outFile[j].idx = k}

\* C2: with unique node ids a link is in the output iff both its ids match a node
\* with a defined Z; an emitted link is emitted once, with the Z of its two nodes
\* (never a default); the links left out are counted, the count is printed when it
\* is not zero, and emitted + unresolved = input links at the end of the run.
C2_LinkerResolution ==
    (pcRun = "done" /\ UniqueNodeIds) =>
        /\ \A k \in 1 .. Len(links) :
            /\ (EmittedAs(k) # {}) <=> (ResolvesTo(links[k].start_id) /\ ResolvesTo(links[k].end_id))
            /\ Cardinality(EmittedAs(k)) <= 1
        /\ \A j \in 1 .. Len(outFile) :
            /\ outFile[j].z_start = SomeZ(NodeZ(outFile[j].start_id))
            /\ outFile[j].z_end = SomeZ(NodeZ(outFile[j].end_id))
        /\ Len(outFile) + missing = Len(links)
        /\ missing # 0 => stdout4 = <<missing>>

\* a run with unique node ids ended with one link emitted between two different
\* elevations and one link left out and reported
C2_Witness ==
    /\ pcRun = "done"
    /\ UniqueNodeIds
    /\ Len(links) = 2
    /\ Len(outFile) = 1
    /\ outFile[1].z_start # outFile[1].z_end
    /\ missing = 1
    /\ stdout4 = <<1>>

(***************************************************************************)
(* Scripts 1 and 2: PATTERNS and infer_floor_label.  A file name is a      *)
(* sequence of one-character strings.                                      *)
(***************************************************************************)
\* case folding of re.I, on the letters the patterns use
Lower(c) ==
    CASE c = "B" -> "b"
      [] c = "O" -> "o"
      [] c = "U" -> "u"
      [] c = "T" -> "t"
      [] OTHER -> c

\* re.compile(r"_<tok>[_\.]", re.I).search(name): "_", the token in either
\* case, then "_" or ".", anywhere in the name
Search(tok, name) ==
    \E i \in 1 .. Len(name) - Len(tok) - 1 :
        /\ name[i] = "_"
        /\ \A j \in 1 .. Len(tok) : Lower(name[i + j]) = tok[j]
        /\ name[i + Len(tok) + 1] \in {"_", "."}

\* PATTERNS of script 1: <<token, label>> in list order
PATTERNS1 ==
    << <<<<"b", "3">>, "B3">>,
       <<<<"b", "2">>, "B2">>,
       <<<<"b", "1">>, "B1">>,
       <<<<"0">>, "0F">>,
       <<<<"1">>, "1F">>,
       <<<<"2", "o", "u", "t">>, "2out">>,
       <<<<"3", "o", "u", "t">>, "3out">>,
       <<<<"4", "o", "u", "t">>, "4out">>,
       <<<<"2">>, "2F">>,
       <<<<"3">>, "3F">>,
       <<<<"4">>, "4F">> >>

\* PATTERNS of script 2
PATTERNS2 ==
    << <<<<"b", "3">>, "B3">>,
       <<<<"b", "2">>, "B2">>,
       <<<<"b", "1">>, "B1">>,
       <<<<"0">>, "0F">>,
       <<<<"1">>, "1F">>,
       <<<<"2", "o", "u", "t">>, "2out">>,
       <<<<"3", "o", "u", "t">>, "3out">>,
       <<<<"4", "o", "u", "t">>, "4out">>,
       <<<<"2">>, "2F">>,
       <<<<"3">>, "3F">>,
       <<<<"4">>, "4F">> >>

\* BASE_Z of script 1, in tenths
BASE_Z1 == 32

\* FLOOR_OFFSETS of script 1, in tenths
FLOOR_OFFSETS1 ==
    [lab \in {"B3", "B2", "B1", "0F", "1F", "2F", "2out", "3F", "3out", "4F", "4out"} |->
        CASE lab = "B3" -> -350
          [] lab = "B2" -> -250
          [] lab = "B1" -> -150
          [] lab = "0F" -> 0
          [] lab = "1F" -> 150
          [] lab \in {"2F", "2out"} -> 250
          [] lab \in {"3F", "3out"} -> 350
          [] lab \in {"4F", "4out"} -> 450]

\* mutant of InferFrom: the loop does not return at the first match, the last one wins
RECURSIVE InferLastFrom(_, _, _)
InferLastFrom(patterns, name, k) ==
    IF k = 0 THEN "0F"
    ELSE IF Search(patterns[k][1], name) THEN patterns[k][2]
    ELSE InferLastFrom(patterns, name, k - 1)

InferLastMatch(patterns, name) == InferLastFrom(patterns, name, Len(patterns))

\* the loop of infer_floor_label from rule k on
RECURSIVE InferFrom(_, _, _)
InferFrom(patterns, name, k) ==
    IF k > Len(patterns) THEN "0F"
    ELSE IF Search(patterns[k][1], name) THEN patterns[k][2]
    ELSE InferFrom(patterns, name, k + 1)

\* infer_floor_label
InferFloorLabel(patterns, name) == InferFrom(patterns, name, 1)

(***************************************************************************)
(* SpecLabel: one call infer_floor_label(filename), of script 1 or 2.      *)
(***************************************************************************)
MaxPieces == 3

\* the pieces file names are put together from
NamePieces ==
    { <<"_", "b", "3">>, <<"_", "B", "2">>, <<"_", "b", "1">>, <<"_", "0">>, <<"_", "1">>,
      <<"_", "2", "o", "u", "t">>, <<"_", "3", "O", "U", "T">>, <<"_", "4", "o", "u", "t">>,
      <<"_", "2">>, <<"_", "3">>, <<"_", "4">>,
      <<"_">>, <<".">>, <<"x">> }

RECURSIVE Concat(_)
Concat(ps) == IF ps = <<>> THEN <<>> ELSE Head(ps) \o Concat(Tail(ps))

FileNames == {Concat(ps) : ps \in UNION {[1 .. n -> NamePieces] : n \in 0 .. MaxPieces}}

LabelStart ==
    /\ filename \in FileNames
    /\ script = 0
    /\ label = NoneLabel
    /\ pcLabel = "call"

\* infer_floor_label of script 1
CallInferFloorLabel1 ==
    /\ pcLabel = "call"
    /\ script' = 1
    /\ label' = InferFloorLabel(PATTERNS1, filename)
    /\ pcLabel' = "ret"
    /\ UNCHANGED filename
    /\ UNCHANGED othersLabel

\* infer_floor_label of script 2
CallInferFloorLabel2 ==
    /\ pcLabel = "call"
    /\ script' = 2
    /\ label' = InferFloorLabel(PATTERNS2, filename)
    /\ pcLabel' = "ret"
    /\ UNCHANGED filename
    /\ UNCHANGED othersLabel

InitLabel == LabelStart /\ IdleButLabel
NextLabel == CallInferFloorLabel1 \/ CallInferFloorLabel2
SpecLabel == InitLabel /\ [][NextLabel]_vars

\* the rules of the script that was called
RulesUsed == IF script = 1 THEN PATTERNS1 ELSE PATTERNS2

\* the rules whose pattern matches the file name
Matching == {k \in 1 .. Len(RulesUsed) : Search(RulesUsed[k][1], filename)}

\* the first matching rule, by list position
FirstMatching == CHOOSE k \in Matching : \A j \in Matching : k <= j

\* the label is that of the first matching rule, "0F" without one, and a key of
\* FLOOR_OFFSETS of script 1
FirstRuleWins ==
    /\ Matching = {} => label = "0F"
    /\ Matching # {} => label = RulesUsed[FirstMatching][2]
    /\ label \in DOMAIN FLOOR_OFFSETS1

\* the name holds the token "_2out_" or "_2out."
Has2out == Search(<<"2", "o", "u", "t">>, filename)

\* C3 as stated: first rule wins, "0F" by default, the label is a key of
\* FLOOR_OFFSETS, and a name containing an out token such as "_2out_" resolves
\* to "2out" and never to "2F".
C3_FirstRuleAndOutToken ==
    pcLabel = "ret" =>
        /\ FirstRuleWins
        /\ Has2out => label = "2out" /\ label # "2F"

\* C3 amended: first rule wins, "0F" by default, the label is a key of
\* FLOOR_OFFSETS; a name containing "_2out_" never resolves to "2F", and it
\* resolves to "2out" unless an earlier rule (B3, B2, B1, 0F, 1F) matches too.
C3_FirstRuleAmended ==
    pcLabel = "ret" =>
        /\ FirstRuleWins
        /\ Has2out => label # "2F"
        /\ (Has2out /\ \A k \in Matching : k >= 6) => label = "2out"

\* a name holding both "_2out_" and "_2_" was resolved, to "2out"
C3_Witness ==
    /\ pcLabel = "ret"
    /\ Has2out
    /\ Search(<<"2">>, filename)
    /\ label = "2out"

(***************************************************************************)
(* Script 1: add_z_to_geom.                                                *)
(***************************************************************************)
\* shapely's is_empty: the geometry holds no coordinate
IsEmpty(g) == Leaves(g) = <<>>

\* [(xy[0], xy[1], z) for xy in coords]
SetZ(coords, zz) == [i \in 1 .. Len(coords) |-> <<coords[i][1], coords[i][2], zz>>]

\* Polygon(ext, ints) rebuilt from a polygon's exterior and interiors
PolygonWithZ(p, zz) == Geometry("Polygon", [i \in 1 .. Len(p.parts) |-> SetZ(p.parts[i], zz)], <<>>)

\* Point(geom.x, geom.y, z)
PointWithZ(p, zz) == Point(<<p.parts[1][1][1], p.parts[1][1][2], zz>>)

\* add_z_to_geom
RECURSIVE AddZToGeom(_, _)
AddZToGeom(g, zz) ==
    IF g = NoneGeom \/ IsEmpty(g) THEN g
    ELSE IF g.type = "Point" THEN PointWithZ(g, zz)
    ELSE IF g.type = "MultiPoint"
    THEN MultiPoint([k \in 1 .. Len(g.geoms) |-> PointWithZ(g.geoms[k], zz)])
    ELSE IF g.type = "LineString" THEN LineString(SetZ(g.parts[1], zz))
    ELSE IF g.type = "MultiLineString"
    THEN MultiLineString([k \in 1 .. Len(g.geoms) |-> LineString(SetZ(g.geoms[k].parts[1], zz))])
    ELSE IF g.type = "Polygon" THEN PolygonWithZ(g, zz)
    ELSE IF g.type = "MultiPolygon"
    THEN MultiPolygon([k \in 1 .. Len(g.geoms) |-> PolygonWithZ(g.geoms[k], zz)])
    ELSE IF g.type = "GeometryCollection"
    THEN GeometryCollection([k \in 1 .. Len(g.geoms) |-> AddZToGeom(g.geoms[k], zz)])
    ELSE g

\* the shape kinds add_z_to_geom rewrites
SupportedKinds ==
    {"Point", "MultiPoint", "LineString", "MultiLineString", "Polygon", "MultiPolygon",
     "GeometryCollection"}

\* every geometry of the tree is of a supported kind
RECURSIVE AllSupported(_)
AllSupported(g) ==
    /\ g.type \in SupportedKinds
    /\ \A k \in 1 .. Len(g.geoms) : AllSupported(g.geoms[k])

(***************************************************************************)
(* Script 3: with_z, walk_coords, process_geom, process.  A JSON value is  *)
(* a number or a list; the dicts live on a heap and are reached by         *)
(* address, so that two references to one dict see the same fields.        *)
(***************************************************************************)
JNum(v) == [kind |-> "num", num |-> v, items |-> <<>>]
JList(xs) == [kind |-> "list", num |-> 0, items |-> xs]

\* a coordinate as a JSON list of numbers
JCoord(c) == JList([i \in 1 .. Len(c) |-> JNum(c[i])])

\* BASE_Z of script 3, in tenths
BASE_Z3 == 32

FILL_ONLY == FALSE

\* with_z
WithZ(coord) ==
    IF coord.kind # "list" \/ Len(coord.items) < 2 THEN coord
    ELSE IF Len(coord.items) >= 3
    THEN IF FILL_ONLY THEN coord
         ELSE JList([coord.items EXCEPT ![3] = JNum(FloatLiteral(BASE_Z3))])
    ELSE JList(<<coord.items[1], coord.items[2], JNum(FloatLiteral(BASE_Z3))>>)

\* the test of walk_coords: a list that starts with two numbers is a coordinate
IsCoord(obj) ==
    /\ obj.kind = "list"
    /\ Len(obj.items) >= 2
    /\ obj.items[1].kind = "num"
    /\ obj.items[2].kind = "num"

\* walk_coords
RECURSIVE WalkCoords(_)
WalkCoords(obj) ==
    IF obj.kind = "list"
    THEN IF IsCoord(obj) THEN WithZ(obj)
         ELSE JList([i \in 1 .. Len(obj.items) |-> WalkCoords(obj.items[i])])
    ELSE obj

\* a dict of the parsed file: its "type", its "coordinates" if it has the key,
\* and the addresses under "geometries", "features" or "geometry" (0 is null)
Dict(t, has, c, ks) == [type |-> t, hasCoords |-> has, coordinates |-> c, kids |-> ks]
GeomDict(t, c) == Dict(t, TRUE, c, <<>>)
ParentDict(t, ks) == Dict(t, FALSE, JList(<<>>), ks)
FreeSlot == Dict("", FALSE, JList(<<>>), <<>>)

\* process_geom, as the heap it leaves; it returns the address it was given
RECURSIVE ProcessGeom(_, _)
RECURSIVE ProcessGeoms(_, _)
ProcessGeom(h, a) ==
    IF a = 0 THEN h
    ELSE IF h[a].type = "GeometryCollection" THEN ProcessGeoms(h, h[a].kids)
    ELSE IF h[a].hasCoords THEN [h EXCEPT ![a].coordinates = WalkCoords(h[a].coordinates)]
    ELSE h
ProcessGeoms(h, ks) ==
    IF ks = <<>> THEN h ELSE ProcessGeoms(ProcessGeom(h, Head(ks)), Tail(ks))

\* the loop of process over the features
RECURSIVE ProcessFeatures(_, _)
ProcessFeatures(h, fts) ==
    IF fts = <<>> THEN h
    ELSE LET ft == Head(fts)
             h1 == IF ft # 0 /\ h[ft].kids # <<>> THEN ProcessGeom(h, h[ft].kids[1]) ELSE h
         IN  ProcessFeatures(h1, Tail(fts))

\* process, as the heap it leaves; it returns the address it was given
Process(h, a) ==
    IF a = 0 THEN h
    ELSE IF h[a].type = "FeatureCollection" THEN ProcessFeatures(h, h[a].kids)
    ELSE IF h[a].type = "Feature"
    THEN IF h[a].kids # <<>> THEN ProcessGeom(h, h[a].kids[1]) ELSE h
    ELSE ProcessGeom(h, a)

\* the leaf coordinates of a JSON coordinates value
RECURSIVE JLeaves(_)
JLeaves(v) ==
    IF v.kind # "list" THEN {}
    ELSE IF IsCoord(v) THEN {v}
    ELSE UNION {JLeaves(v.items[i]) : i \in 1 .. Len(v.items)}

(***************************************************************************)
(* SpecUniform: one uniform projection call, add_z_to_geom(geom, z) of     *)
(* script 1 or process(data) of script 3.                                  *)
(***************************************************************************)
UniCoords == {<<0, 0>>, <<3, 1>>, <<1, 1, 2 * One>>}

Hole == <<<<1, 0>>, <<2, 0>>, <<2, 1>>, <<1, 0>>>>
Square3D == <<<<0, 0, One>>, <<3, 0, One>>, <<3, 1, One>>, <<0, 0, One>>>>

\* children for the collections: every kind, a nested collection, an
\* unsupported kind and an empty geometry
UniKids ==
    { Point(<<0, 0>>),
      LineString(<<<<0, 0>>, <<1, 1, 2 * One>>>>),
      Polygon(Square, <<Hole>>),
      GeometryCollection(<<Point(<<1, 1, 2 * One>>), MultiPoint(<<Point(<<3, 1>>)>>)>>),
      LinearRing(Square),
      GeometryCollection(<<>>) }

UniGeoms ==
    {Point(c) : c \in UniCoords}
    \cup {LineString(cs) : cs \in [1 .. 2 -> UniCoords]}
    \cup { NoneGeom,
           GeometryCollection(<<>>),
           LinearRing(Square),
           Polygon(Square, <<>>),
           Polygon(Square3D, <<Hole>>),
           MultiPoint(<<Point(<<0, 0>>), Point(<<1, 1, 2 * One>>)>>),
           MultiLineString(<<LineString(Square), LineString(<<<<0, 0>>, <<3, 1>>>>)>>),
           MultiPolygon(<<Polygon(Square, <<Hole>>), Polygon(Square3D, <<>>)>>) }
    \cup {GeometryCollection(<<a, b>>) : a \in UniKids, b \in UniKids}

\* z_abs = BASE_Z + FLOOR_OFFSETS[label], for every label (process_shp, line 135)
ZAbsValues ==
    {FAdd(FloatLiteral(BASE_Z1), FloatLiteral(FLOOR_OFFSETS1[lab])) : lab \in DOMAIN FLOOR_OFFSETS1}

UniStart ==
    /\ geom1 \in UniGeoms
    /\ z \in ZAbsValues
    /\ ret1 = NoneGeom
    /\ warnings1 = 0
    /\ pc1 = "call"

\* add_z_to_geom; it prints nothing and counts nothing on any branch
CallAddZToGeom ==
    /\ pc1 = "call"
    /\ ret1' = AddZToGeom(geom1, z)
    /\ pc1' = "ret"
    /\ UNCHANGED <<geom1, z, warnings1>>
    /\ UNCHANGED othersUni

\* "coordinates" values of the sample files: 2, 3 and 4 components, every depth
JsonGeoms ==
    { GeomDict("Point", JCoord(<<0, 0>>)),
      GeomDict("Point", JCoord(<<1, 1, 2 * One>>)),
      GeomDict("Point", JCoord(<<1, 1, 2 * One, 7>>)),
      GeomDict("Point", JCoord(<<1, 1, FloatLiteral(BASE_Z3)>>)),
      GeomDict("LineString", JList(<<JCoord(<<0, 0>>), JCoord(<<1, 1, 2 * One>>)>>)),
      GeomDict("Polygon",
               JList(<<JList(<<JCoord(<<0, 0>>), JCoord(<<3, 0>>), JCoord(<<3, 1>>),
                              JCoord(<<0, 0>>)>>)>>)),
      GeomDict("MultiPolygon",
               JList(<<JList(<<JList(<<JCoord(<<0, 0, One>>), JCoord(<<3, 0, One>>),
                                      JCoord(<<3, 1, One>>), JCoord(<<0, 0, One>>)>>)>>)>>)) }

\* the parsed files: a bare geometry, a Feature, a Feature with a null geometry,
\* a FeatureCollection of two Features, one whose Features share a geometry
\* dict, and a GeometryCollection holding a geometry and a nested collection
JsonHeaps ==
    {<<a, FreeSlot, FreeSlot, FreeSlot, FreeSlot>> : a \in JsonGeoms}
    \cup {<<ParentDict("Feature", <<2>>), a, FreeSlot, FreeSlot, FreeSlot>> : a \in JsonGeoms}
    \cup {<<ParentDict("Feature", <<0>>), FreeSlot, FreeSlot, FreeSlot, FreeSlot>>}
    \cup {<<ParentDict("FeatureCollection", <<2, 3>>), ParentDict("Feature", <<4>>),
            ParentDict("Feature", <<5>>), a, b>> : a \in JsonGeoms, b \in JsonGeoms}
    \cup {<<ParentDict("FeatureCollection", <<2, 3>>), ParentDict("Feature", <<4>>),
            ParentDict("Feature", <<4>>), a, FreeSlot>> : a \in JsonGeoms}
    \cup {<<ParentDict("GeometryCollection", <<2, 3>>), a,
            ParentDict("GeometryCollection", <<4>>), b, FreeSlot>> : a \in JsonGeoms, b \in JsonGeoms}

JsonStart ==
    /\ heap \in JsonHeaps
    /\ data \in {0, 1}
    /\ ret3 = 0
    /\ pc3 = "call"

\* process(data): the dicts are updated in place and data itself is returned
CallProcess ==
    /\ pc3 = "call"
    /\ heap' = Process(heap, data)
    /\ ret3' = data
    /\ pc3' = "ret"
    /\ UNCHANGED data
    /\ UNCHANGED othersJson

InitUniform ==
    \/ UniStart /\ IdleButUni
    \/ JsonStart /\ IdleButJson
NextUniform == CallAddZToGeom \/ CallProcess
SpecUniform == InitUniform /\ [][NextUniform]_vars

\* every leaf coordinate of the geometry add_z_to_geom returned has 3 components, the third z
Uniform1 ==
    \A i \in 1 .. Len(Leaves(ret1)) :
        Len(Leaves(ret1)[i]) = 3 /\ Leaves(ret1)[i][3] = z

\* every leaf coordinate of every geometry dict has 3 components, the third BASE_Z
Uniform3 ==
    \A a \in 1 .. Len(heap) :
        \A c \in JLeaves(heap[a].coordinates) :
            Len(c.items) = 3 /\ c.items[3] = JNum(FloatLiteral(BASE_Z3))

\* C5 as stated: after uniform projection every leaf coordinate of the output has
\* exactly 3 components and its third component is z, whatever the input carried,
\* for every supported shape kind and nesting depth (script 1, and script 3
\* with FILL_ONLY = False).
C5_UniformThreeComponents ==
    /\ (pc1 = "ret" /\ AllSupported(geom1)) => Uniform1
    /\ (pc3 = "ret" /\ data # 0 /\ ~FILL_ONLY) => Uniform3

\* the call was given a geometry of a kind add_z_to_geom does not know
UnsupportedCallReturned ==
    /\ pc1 = "ret"
    /\ geom1 # NoneGeom
    /\ ~IsEmpty(geom1)
    /\ geom1.type \notin SupportedKinds

\* C7 as stated: a geometry of an unsupported kind is returned unchanged, with no Z
\* injected, and a warning is emitted or a counter incremented for it.
C7_UnsupportedObservable ==
    UnsupportedCallReturned => ret1 = geom1 /\ warnings1 >= 1

\* C8 as stated: a projection call leaves its input as it was, seen through any
\* reference, and returns a new tree.
C8_InputNotMutated ==
    [][ /\ (pc1 = "call" /\ pc1' = "ret") => geom1' = geom1
        /\ (pc3 = "call" /\ pc3' = "ret" /\ data # 0) => (heap' = heap /\ ret3' # data) ]_vars

(***************************************************************************)
(* Script 1: clean_geoms, process_shp and main.  A file is a number, the   *)
(* files numbered in the order sorted() gives their paths; what a file     *)
(* holds is read when process_shp reaches it.                              *)
(***************************************************************************)
MaxFiles == 3

\* the name of a file: "_2out_", "_b1." and then "x", "xx", ...
RECURSIVE Xs(_)
Xs(n) == IF n = 0 THEN <<>> ELSE <<"x">> \o Xs(n - 1)
Name(f) ==
    IF f = 1 THEN <<"_", "2", "o", "u", "t", "_">>
    ELSE IF f = 2 THEN <<"_", "b", "1", ".">>
    ELSE Xs(f - 2)

\* a geometry object mapping() cannot serialise (no __geo_interface__)
Opaque == Geometry("Opaque", << <<<<0, 0>>>> >>, <<>>)

\* what gpd.read_file finds: an unreadable file, or a table of geometries with
\* no CRS, a CRS, or a CRS that to_crs fails on
FileContent(r, c, gs) == [readable |-> r, crs |-> c, geoms |-> gs]
FileContents ==
    { FileContent(FALSE, "none", <<>>),
      FileContent(TRUE, "none", <<>>),
      FileContent(TRUE, "ok", <<NoneGeom, GeometryCollection(<<>>)>>),
      FileContent(TRUE, "ok", <<Point(<<0, 0>>), NoneGeom>>),
      FileContent(TRUE, "bad", <<LineString(<<<<0, 0>>, <<1, 1>>>>)>>),
      FileContent(TRUE, "none", <<Opaque>>),
      FileContent(TRUE, "ok", <<Polygon(Square, <<>>), Opaque>>) }

\* clean_geoms: the rows with a geometry that is neither NULL nor empty (the
\* geometries read here are valid ones, which make_valid returns as they are)
CleanGeoms(gs) == SelectSeq(gs, LAMBDA g : g # NoneGeom /\ ~IsEmpty(g))

\* the [SKIP] lines of the feature loop: one per geometry mapping() fails on
RECURSIVE FeatureSkips(_, _)
FeatureSkips(gs, f) ==
    IF gs = <<>> THEN <<>>
    ELSE (IF Head(gs) = Opaque THEN << <<"SKIP-FEATURE", f>> >> ELSE <<>>)
         \o FeatureSkips(Tail(gs), f)

\* process_shp(f) on a file holding c: whether an exception escapes it, the
\* lines it prints and the features it writes (none: no file is written)
ProcessShp(f, c) ==
    LET inferred == InferFloorLabel(PATTERNS1, Name(f))
        known == inferred \in DOMAIN FLOOR_OFFSETS1
        lab == IF known THEN inferred ELSE "0F"
        warn0 == IF known THEN <<>> ELSE << <<"WARN", f>> >>
        zAbs1 == FAdd(FloatLiteral(BASE_Z1), FloatLiteral(FLOOR_OFFSETS1[lab]))
        cleaned == CleanGeoms(c.geoms)
        warn1 == IF c.crs = "bad" THEN << <<"WARN", f>> >> ELSE <<>>
        with3d == [k \in 1 .. Len(cleaned) |-> AddZToGeom(cleaned[k], zAbs1)]
        kept == CleanGeoms(with3d)
        features == SelectSeq(kept, LAMBDA g : g # Opaque)
    IN  IF ~c.readable
        THEN [raised |-> TRUE, lines |-> warn0, features |-> <<>>]
        ELSE IF cleaned = <<>>
        THEN [raised |-> FALSE, lines |-> warn0 \o << <<"SKIP", f>> >>, features |-> <<>>]
        ELSE IF kept = <<>>
        THEN [raised |-> FALSE, lines |-> warn0 \o warn1 \o << <<"SKIP", f>> >>,
              features |-> <<>>]
        ELSE IF features = <<>>
        THEN [raised |-> FALSE,
              lines |-> warn0 \o warn1 \o FeatureSkips(kept, f) \o << <<"SKIP", f>> >>,
              features |-> <<>>]
        ELSE [raised |-> FALSE,
              lines |-> warn0 \o warn1 \o FeatureSkips(kept, f) \o << <<"OK", f>> >>,
              features |-> features]

\* sorted(shps)
RECURSIVE Insert(_, _)
Insert(x, sq) ==
    IF sq = <<>> THEN <<x>>
    ELSE IF x <= Head(sq) THEN <<x>> \o sq
    ELSE <<Head(sq)>> \o Insert(x, Tail(sq))

RECURSIVE Sorted(_)
Sorted(sq) == IF sq = <<>> THEN <<>> ELSE Insert(Head(sq), Sorted(Tail(sq)))

\* mutant of RestAfter: no try/except around process_shp, an exception ends the loop
RestAfterUncaught(td, raised) == IF raised THEN <<>> ELSE Tail(td)

\* the files the for loop still has to visit after one iteration: the
\* exception of process_shp, if any, is caught inside the loop body
RestAfter(td, raised) == Tail(td)

(***************************************************************************)
(* SpecMain: main() of script 1.                                           *)
(***************************************************************************)
\* the lists rglob can return: any files, each once, in any order
ShpLists ==
    {sq \in UNION {[1 .. n -> 1 .. MaxFiles] : n \in 0 .. MaxFiles} :
        \A i \in 1 .. Len(sq) : \A j \in 1 .. Len(sq) : sq[i] = sq[j] => i = j}

MainStart ==
    /\ shps \in ShpLists
    /\ todo = <<>>
    /\ attempted = <<>>
    /\ stdout1 = <<>>
    /\ written = {}
    /\ exitCode = -1
    /\ pcMain = "start"

\* lines 197-200: no .shp at all, sys.exit(1)
MainNoInput ==
    /\ pcMain = "start"
    /\ shps = <<>>
    /\ stdout1' = Append(stdout1, <<"ERR", 0>>)
    /\ exitCode' = 1
    /\ pcMain' = "exit"
    /\ UNCHANGED <<shps, todo, attempted, written>>
    /\ UNCHANGED othersMain

\* lines 202-207: the [INFO] lines, then the loop over sorted(shps)
MainBegin ==
    /\ pcMain = "start"
    /\ shps # <<>>
    /\ stdout1' = stdout1 \o << <<"INFO", 0>>, <<"INFO", 0>> >>
    /\ todo' = Sorted(shps)
    /\ pcMain' = "loop"
    /\ UNCHANGED <<shps, attempted, written, exitCode>>
    /\ UNCHANGED othersMain

\* lines 207-211: one iteration, process_shp(shp) inside try/except
ProcessNext ==
    /\ pcMain = "loop"
    /\ todo # <<>>
    /\ \E c \in FileContents :
        LET shp == Head(todo)
            r == ProcessShp(shp, c)
        IN  /\ attempted' = Append(attempted, shp)
            /\ stdout1' = stdout1 \o r.lines
                            \o (IF r.raised THEN << <<"ERR", shp>> >> ELSE <<>>)
            /\ written' = IF r.features # <<>> THEN written \cup {shp} ELSE written
            /\ todo' = RestAfter(todo, r.raised)
    /\ UNCHANGED <<shps, exitCode, pcMain>>
    /\ UNCHANGED othersMain

\* the loop is over, main returns
MainReturn ==
    /\ pcMain = "loop"
    /\ todo = <<>>
    /\ exitCode' = 0
    /\ pcMain' = "done"
    /\ UNCHANGED <<shps, todo, attempted, stdout1, written>>
    /\ UNCHANGED othersMain

InitMain == MainStart /\ IdleButMain
NextMain == MainNoInput \/ MainBegin \/ ProcessNext \/ MainReturn
SpecMain == InitMain /\ [][NextMain]_vars
\* the interpreter keeps running the program until it returns or exits
SpecMainFair == SpecMain /\ WF_vars(NextMain)

\* the files that failed: an exception was caught, or nothing valid was in them
Failed == {stdout1[i][2] : i \in {j \in 1 .. Len(stdout1) : stdout1[j][1] \in {"ERR", "SKIP"}}}

\* C10, the state part: the files attempted so far followed by those still to
\* visit are always the sorted input, each file once; the run ends normally
\* only with every file attempted, and fatally only without any input file.
C10_Progress ==
    /\ pcMain = "loop" => attempted \o todo = Sorted(shps)
    /\ pcMain = "done" => attempted = Sorted(shps) /\ exitCode = 0 /\ shps # <<>>
    /\ pcMain = "exit" => shps = <<>> /\ exitCode = 1 /\ attempted = <<>>
    /\ \A i \in 1 .. Len(attempted) : \A j \in 1 .. Len(attempted) :
        i < j => attempted[i] < attempted[j]
    /\ written \cap Failed = {}

\* C10: in a batch run every input file is attempted exactly once, in sorted
\* order, whatever happened to the files before it, and the run comes to its
\* end; it ends with a fatal error only when there is no input file.
C10_BatchRun ==
    /\ []C10_Progress
    /\ <>(pcMain \in {"done", "exit"})

\* a run over three files ended after the first two failed (one by an
\* exception, one with no valid geometry) and the third was written
C10_Witness ==
    /\ pcMain = "done"
    /\ Len(attempted) = 3
    /\ <<"ERR", attempted[1]>> \in {stdout1[i] : i \in 1 .. Len(stdout1)}
    /\ <<"SKIP", attempted[2]>> \in {stdout1[i] : i \in 1 .. Len(stdout1)}
    /\ attempted[3] \in written

(***************************************************************************)
(* Script 2: categorize_geom.  A JSON value is a record tagged with its    *)
(* Python type; a key a dict does not hold reads as None, as dict.get      *)
(* gives it.                                                               *)
(***************************************************************************)
PyNone == [py |-> "None"]
PyStr(s) == [py |-> "str", s |-> s]
PyList(items) == [py |-> "list", items |-> items]
\* a geometry dict: its "type" and "geometries" entries
PyGeom(t, gs) == [py |-> "dict", type |-> t, geometries |-> gs]
\* a feature dict: its "geometry" entry
PyFeature(g) == [py |-> "dict", geometry |-> g]
\* {}
EmptyDict == PyGeom(PyNone, PyNone)

\* bool(v) is False: None, "", [] and {}
Falsy(v) ==
    \/ v = PyNone
    \/ v = PyStr("")
    \/ v = PyList(<<>>)
    \/ v = EmptyDict

\* v or d
Or(v, d) == IF Falsy(v) THEN d ELSE v

\* str.lower() on the type names that occur
StrLower(s) ==
    CASE s = "Point" -> "point"
      [] s = "MultiPoint" -> "multipoint"
      [] s = "LineString" -> "linestring"
      [] s = "LINESTRING" -> "linestring"
      [] s = "MultiLineString" -> "multilinestring"
      [] s = "Polygon" -> "polygon"
      [] s = "MultiPolygon" -> "multipolygon"
      [] s = "GeometryCollection" -> "geometrycollection"
      [] s = "Circle" -> "circle"
      [] OTHER -> s

\* (g.get("type") or "").lower()
LowerType(g) == StrLower(Or(g.type, PyStr("")).s)

\* the if/elif chain on a lowered type name; NoneLabel when no branch is taken
KindCategory(t) ==
    IF t \in {"point", "multipoint"} THEN "points"
    ELSE IF t \in {"linestring", "multilinestring"} THEN "lines"
    ELSE IF t \in {"polygon", "multipolygon"} THEN "polygons"
    ELSE NoneLabel

\* lines 88-93: the set cats after the loop over the children
Cats(g) ==
    LET gs == Or(g.geometries, PyList(<<>>)).items
    IN  {KindCategory(LowerType(gs[i])) : i \in 1 .. Len(gs)} \ {NoneLabel}

\* mutant of CategorizeGeom: a collection that is not of one category goes to others
CategorizeGeomOthers(f) ==
    LET g == Or(f.geometry, EmptyDict)
        t == LowerType(g)
    IN  IF KindCategory(t) # NoneLabel THEN KindCategory(t)
        ELSE IF t = "geometrycollection" /\ Cardinality(Cats(g)) = 1
        THEN CHOOSE c \in Cats(g) : TRUE
        ELSE "others"

\* categorize_geom(ft)
CategorizeGeom(f) ==
    LET g == Or(f.geometry, EmptyDict)
        t == LowerType(g)
    IN  IF KindCategory(t) # NoneLabel THEN KindCategory(t)
        ELSE IF t = "geometrycollection"
        THEN IF Cardinality(Cats(g)) = 1
             THEN CHOOSE c \in Cats(g) : TRUE
             ELSE "polygons"
        ELSE "others"

(***************************************************************************)
(* SpecCat: one call of categorize_geom.                                   *)
(***************************************************************************)
MaxKids == 2

\* the "type" entries of the geometries read: the GeoJSON names, one of them
\* also in capitals, a name GeoJSON does not have, "", and no entry
SimpleTypes ==
    {PyStr("Point"), PyStr("MultiPoint"), PyStr("LineString"), PyStr("LINESTRING"),
     PyStr("MultiLineString"), PyStr("Polygon"), PyStr("MultiPolygon"),
     PyStr("Circle"), PyStr(""), PyNone}

\* the children of a collection: simple geometries and a collection of a Point
CatKids ==
    {PyGeom(t, PyNone) : t \in SimpleTypes}
        \cup {PyGeom(PyStr("GeometryCollection"), PyList(<<PyGeom(PyStr("Point"), PyNone)>>))}

KidLists == UNION {[1 .. n -> CatKids] : n \in 0 .. MaxKids}

\* the features categorize_geom is called with
CatFeatures ==
    {PyFeature(PyNone), PyFeature(EmptyDict)}
        \cup {PyFeature(g) : g \in CatKids}
        \cup {PyFeature(PyGeom(PyStr("GeometryCollection"), PyNone))}
        \cup {PyFeature(PyGeom(PyStr("GeometryCollection"), PyList(ks))) : ks \in KidLists}

CatStart ==
    /\ feature \in CatFeatures
    /\ category = NoneLabel
    /\ pcCat = "call"

CallCategorizeGeom ==
    /\ pcCat = "call"
    /\ category' = CategorizeGeom(feature)
    /\ pcCat' = "ret"
    /\ UNCHANGED feature
    /\ UNCHANGED othersCat

InitCat == CatStart /\ IdleButCat
NextCat == CallCategorizeGeom
SpecCat == InitCat /\ [][NextCat]_vars

\* the geometry of the feature the call was given, and its lowered type name
FeatureGeom == Or(feature.geometry, EmptyDict)
FeatureType == LowerType(FeatureGeom)
IsCollection == FeatureType = "geometrycollection"

\* what the claim says of every geometry that is not a collection
DirectMapping ==
    /\ category \in {"points", "lines", "polygons", "others"}
    /\ FeatureType \in {"point", "multipoint"} => category = "points"
    /\ FeatureType \in {"linestring", "multilinestring"} => category = "lines"
    /\ FeatureType \in {"polygon", "multipolygon"} => category = "polygons"
    /\ (KindCategory(FeatureType) = NoneLabel /\ ~IsCollection) => category = "others"

\* C11 as stated: every feature maps to one of the four categories, the simple
\* kinds directly; a collection maps to the category of its children when they
\* span exactly one, and to polygons only when they span several; any other or
\* missing type maps to others.
C11_PolygonsOnlyWhenMixed ==
    pcCat = "ret" =>
        /\ DirectMapping
        /\ (IsCollection /\ Cardinality(Cats(FeatureGeom)) = 1)
                => category \in Cats(FeatureGeom)
        /\ (IsCollection /\ category = "polygons")
                => (Cardinality(Cats(FeatureGeom)) >= 2 \/ Cats(FeatureGeom) = {"polygons"})

\* C11 amended: every feature maps to one of the four categories, the simple
\* kinds directly (type names compared without regard to case); a collection
\* maps to the category of its children when they span exactly one and to
\* polygons in every other case, several categories or none at all; any other
\* or missing type maps to others.
C11_Categorize ==
    pcCat = "ret" =>
        /\ DirectMapping
        /\ (IsCollection /\ Cardinality(Cats(FeatureGeom)) = 1)
                => category \in Cats(FeatureGeom)
        /\ (IsCollection /\ Cardinality(Cats(FeatureGeom)) # 1)
                => category = "polygons"

\* a collection whose children are of no category (an unknown kind and a nested
\* collection) came back as polygons
C11_Witness ==
    /\ pcCat = "ret"
    /\ IsCollection
    /\ feature.geometry.geometries # PyNone
    /\ Len(feature.geometry.geometries.items) = 2
    /\ Cats(FeatureGeom) = {}
    /\ category = "polygons"

====
